---------------------------- MODULE Spec2Model ----------------------------
(***************************************************************************)
(* Model of package sqltocsv (src/sqltocsv.go): the Converter that turns   *)
(* database/sql Rows into CSV through encoding/csv, and its value          *)
(* formatter toString.                                                     *)
(*                                                                         *)
(* A Go string is modelled as what it is, a sequence of bytes (numbers     *)
(* 0..255); a rune is its code point.  A cell, a header, a column name and *)
(* the text a marshaler returns are all such sequences.                    *)
(***************************************************************************)
EXTENDS Integers, Sequences, FiniteSets, TLC

(***************************************************************************)
(* Characters the code names.                                              *)
(***************************************************************************)
\* ',' : the Delimiter that New sets
Comma == 44
\* '\x00' : the zero rune Write compares Delimiter with
NUL == 0
\* '"' : the cutset of strings.Trim in toString
Quote == 34
\* '-' and '0', used by strconv's decimal formatting
Minus == 45
Zero == 48
\* '.' of strconv.FormatFloat's 'f' format
Dot == 46
\* '=' : base64 padding
Pad == 61

(***************************************************************************)
(* ByteArrayConverter constants (iota).                                    *)
(***************************************************************************)
String == 0
StdBase64 == 1
URLBase64 == 2
RawStdBase64 == 3
RawURLBase64 == 4
Hex == 5

(***************************************************************************)
(* Library text functions used by toString.                                *)
(***************************************************************************)
\* strings.TrimLeft(s, string(cut)): drop every leading byte equal to cut
RECURSIVE TrimLeft(_, _)
TrimLeft(s, cut) ==
    IF s # <<>> /\ Head(s) = cut THEN TrimLeft(Tail(s), cut) ELSE s

\* strings.TrimRight(s, string(cut)): drop every trailing byte equal to cut
RECURSIVE TrimRight(_, _)
TrimRight(s, cut) ==
    IF s # <<>> /\ s[Len(s)] = cut
    THEN TrimRight(SubSeq(s, 1, Len(s) - 1), cut)
    ELSE s

\* strings.Trim(s, `"`) with a one-character cutset
Trim(s, cut) == TrimRight(TrimLeft(s, cut), cut)

\* decimal digits of a natural number, most significant first
RECURSIVE Digits(_)
Digits(n) ==
    IF n < 10 THEN <<Zero + n>> ELSE Digits(n \div 10) \o <<Zero + (n % 10)>>

\* strconv.FormatInt(n, 10) / strconv.Itoa(n)
FormatInt(n) == IF n < 0 THEN <<Minus>> \o Digits(0 - n) ELSE Digits(n)

\* strconv.FormatUint(n, 10)
FormatUint(n) == Digits(n)

\* strconv.FormatBool
FormatBool(b) ==
    IF b THEN <<116, 114, 117, 101>> ELSE <<102, 97, 108, 115, 101>>

\* n copies of byte b
RECURSIVE Repeat(_, _)
Repeat(b, n) == IF n <= 0 THEN <<>> ELSE <<b>> \o Repeat(b, n - 1)

\* strconv.FormatFloat(v, 'f', -1, bitSize).  A float is given by its sign
\* and its shortest round-tripping decimal mant * 10^exp (mant > 0 without
\* trailing zero, or mant = 0); 'f' prints it without an exponent.
FormatFloat(f) ==
    LET d == Digits(f.mant)
        body == IF f.exp >= 0 \/ f.mant = 0
                THEN d \o (IF f.mant = 0 THEN <<>> ELSE Repeat(Zero, f.exp))
                ELSE IF Len(d) > 0 - f.exp
                     THEN SubSeq(d, 1, Len(d) + f.exp) \o <<Dot>>
                          \o SubSeq(d, Len(d) + f.exp + 1, Len(d))
                     ELSE <<Zero, Dot>> \o Repeat(Zero, (0 - f.exp) - Len(d)) \o d
    IN  IF f.neg THEN <<Minus>> \o body ELSE body

\* one lowercase hexadecimal digit
HexDigit(n) == IF n < 10 THEN Zero + n ELSE 97 + (n - 10)

\* hex.EncodeToString
RECURSIVE HexEncode(_)
HexEncode(b) ==
    IF b = <<>> THEN <<>>
    ELSE <<HexDigit(Head(b) \div 16), HexDigit(Head(b) % 16)>> \o HexEncode(Tail(b))

\* the base64 alphabets of RFC 4648: digit 0..63 to its character
B64Char(n, url) ==
    IF n < 26 THEN 65 + n
    ELSE IF n < 52 THEN 97 + (n - 26)
    ELSE IF n < 62 THEN Zero + (n - 52)
    ELSE IF n = 62 THEN (IF url THEN 45 ELSE 43)
    ELSE (IF url THEN 95 ELSE 47)

\* base64.Encoding.EncodeToString: url picks the alphabet, padded the '='
RECURSIVE B64Encode(_, _, _)
B64Encode(b, url, padded) ==
    IF b = <<>> THEN <<>>
    ELSE IF Len(b) = 1 THEN
        <<B64Char(b[1] \div 4, url), B64Char((b[1] % 4) * 16, url)>>
        \o (IF padded THEN <<Pad, Pad>> ELSE <<>>)
    ELSE IF Len(b) = 2 THEN
        <<B64Char(b[1] \div 4, url),
          B64Char((b[1] % 4) * 16 + b[2] \div 16, url),
          B64Char((b[2] % 16) * 4, url)>>
        \o (IF padded THEN <<Pad>> ELSE <<>>)
    ELSE
        <<B64Char(b[1] \div 4, url),
          B64Char((b[1] % 4) * 16 + b[2] \div 16, url),
          B64Char((b[2] % 16) * 4 + b[3] \div 64, url),
          B64Char(b[3] % 64, url)>>
        \o B64Encode(SubSeq(b, 4, Len(b)), url, padded)

(***************************************************************************)
(* Scanned values.  A value is a record tagged with its dynamic Go type t: *)
(*   nil | string (s) | bytes (b) | bool (v) | int, int8 .. int64 (n) |    *)
(*   uint, uint8 .. uint64 (n) | time | float32, float64 | other.          *)
(* A time.Time carries what its String() and its Format(layout) return, a  *)
(* float what fmt.Sprintf(format, val) returns; a value of another type    *)
(* says whether it is a json.Marshaler (and what MarshalJSON returns),     *)
(* whether it is a fmt.Stringer (and its String()), what json.Marshal      *)
(* returns for it and its "%v" text.                                       *)
(***************************************************************************)
SignedTypes == {"int", "int8", "int16", "int32", "int64"}
UnsignedTypes == {"uint", "uint8", "uint16", "uint32", "uint64"}
FloatTypes == {"float32", "float64"}

\* lines 267 and 274: strings.Trim(string(jsonData), `"`)
Unquote(data) == Trim(data, Quote)

\* toString, the []byte case
bytesToString(c, val) ==
    IF c.ByteArrayConverter = String THEN val
    ELSE IF c.ByteArrayConverter = StdBase64 THEN B64Encode(val, FALSE, TRUE)
    ELSE IF c.ByteArrayConverter = URLBase64 THEN B64Encode(val, TRUE, TRUE)
    ELSE IF c.ByteArrayConverter = RawStdBase64 THEN B64Encode(val, FALSE, FALSE)
    ELSE IF c.ByteArrayConverter = RawURLBase64 THEN B64Encode(val, TRUE, FALSE)
    ELSE IF c.ByteArrayConverter = Hex THEN HexEncode(val)
    ELSE val

\* toString, after the type switch: the capability dispatch
otherToString(v) ==
    IF v.isMarshaler /\ ~v.marshalErr THEN Unquote(v.marshalJSON)
    ELSE IF v.isStringer THEN v.str
    ELSE IF ~v.jsonErr THEN Unquote(v.json)
    ELSE v.sprintf

\* func (c Converter) toString(v any) string
toString(c, v) ==
    IF v.t = "nil" THEN <<>>
    ELSE IF v.t = "string" THEN v.s
    ELSE IF v.t = "bytes" THEN bytesToString(c, v.b)
    ELSE IF v.t = "bool" THEN FormatBool(v.v)
    ELSE IF v.t \in SignedTypes THEN FormatInt(v.n)
    ELSE IF v.t \in UnsignedTypes THEN FormatUint(v.n)
    ELSE IF v.t = "time" THEN
        (IF c.TimeFormat # <<>> THEN v.format ELSE v.str)
    ELSE IF v.t \in FloatTypes THEN
        (IF c.FloatFormat # <<>> THEN v.sprintf ELSE FormatFloat(v))
    ELSE otherToString(v)

(***************************************************************************)
(* Bounds and the pools the inputs are drawn from.                         *)
(***************************************************************************)
\* most rows the cursor yields in one conversion
MaxRows == 2

\* "id", "name", "h", "Al"
s_id == <<105, 100>>
s_name == <<110, 97, 109, 101>>
s_h == <<104>>
s_Al == <<65, 108>>
\* a time layout ("2006") and a float format ("%.1f")
s_layout == <<50, 48, 48, 54>>
s_floatfmt == <<37, 46, 49, 102>>

\* rows.Columns() of the result set
Columns == <<s_id, s_name>>

\* values the driver can hand to Scan
v_nil == [t |-> "nil"]
v_int == [t |-> "int64", n |-> 1]
v_neg == [t |-> "int32", n |-> -20]
v_uint == [t |-> "uint8", n |-> 255]
v_str == [t |-> "string", s |-> s_Al]
v_empty == [t |-> "string", s |-> <<>>]
v_bytes == [t |-> "bytes", b |-> <<171, 205>>]
v_bytes3 == [t |-> "bytes", b |-> <<251, 255, 190>>]
v_bytes1 == [t |-> "bytes", b |-> <<65>>]
v_true == [t |-> "bool", v |-> TRUE]
v_false == [t |-> "bool", v |-> FALSE]
\* 12.5, -0.05, 300 and 0 with their "%.1f" texts
v_f125 == [t |-> "float64", neg |-> FALSE, mant |-> 125, exp |-> -1,
           sprintf |-> <<49, 50, 46, 53>>]
v_f005 == [t |-> "float32", neg |-> TRUE, mant |-> 5, exp |-> -2,
           sprintf |-> <<45, 48, 46, 49>>]
v_f300 == [t |-> "float64", neg |-> FALSE, mant |-> 3, exp |-> 2,
           sprintf |-> <<51, 48, 48, 46, 48>>]
v_f0 == [t |-> "float64", neg |-> FALSE, mant |-> 0, exp |-> 0,
         sprintf |-> <<48, 46, 48>>]
\* a time.Time: String() is "2024-01-02 03:04:05 +0000 UTC", Format("2006") is "2024"
v_time == [t |-> "time",
           str |-> <<50, 48, 50, 52, 45, 48, 49, 45, 48, 50, 32, 48, 51, 58, 48,
                     52, 58, 48, 53, 32, 43, 48, 48, 48, 48, 32, 85, 84, 67>>,
           format |-> <<50, 48, 50, 52>>]
\* a value of another type
Other(isM, mErr, mText, isS, sText, jErr, jText) ==
    [t |-> "other", isMarshaler |-> isM, marshalErr |-> mErr, marshalJSON |-> mText,
     isStringer |-> isS, str |-> sText, jsonErr |-> jErr, json |-> jText,
     sprintf |-> <<123, 125>>]
\* marshalers returning  "Al"  ,  ""Al"  ,  Al""  ,  "  ,  7  ,  ""  and  "a"b"
v_m_quoted == Other(TRUE, FALSE, <<34, 65, 108, 34>>, FALSE, <<>>, FALSE, <<>>)
v_m_two_lead == Other(TRUE, FALSE, <<34, 34, 65, 108, 34>>, FALSE, <<>>, FALSE, <<>>)
v_m_two_trail == Other(TRUE, FALSE, <<65, 108, 34, 34>>, TRUE, s_h, FALSE, <<>>)
v_m_one == Other(TRUE, FALSE, <<34>>, FALSE, <<>>, FALSE, <<>>)
v_m_plain == Other(TRUE, FALSE, <<55>>, FALSE, <<>>, FALSE, <<>>)
v_m_empty == Other(TRUE, FALSE, <<34, 34>>, FALSE, <<>>, FALSE, <<>>)
v_m_inner == Other(TRUE, FALSE, <<34, 97, 34, 98, 34>>, FALSE, <<>>, FALSE, <<>>)
\* a marshaler that fails and is a Stringer; one that fails and is none
v_m_err_s == Other(TRUE, TRUE, <<>>, TRUE, s_h, FALSE, <<34, 120, 34>>)
v_m_err == Other(TRUE, TRUE, <<>>, FALSE, <<>>, FALSE, <<34, 34, 120, 34>>)
\* a Stringer only; a plain struct; a value json.Marshal rejects
v_stringer == Other(FALSE, FALSE, <<>>, TRUE, s_name, FALSE, <<34, 110, 34>>)
v_struct == Other(FALSE, FALSE, <<>>, FALSE, <<>>, FALSE, <<34, 65, 108, 34, 34>>)
v_chan == Other(FALSE, FALSE, <<>>, FALSE, <<>>, TRUE, <<>>)

ValuePool ==
    <<v_nil, v_int, v_neg, v_uint, v_str, v_empty, v_bytes, v_bytes3, v_bytes1,
      v_true, v_false, v_f125, v_f005, v_f300, v_f0, v_time,
      v_m_quoted, v_m_two_lead, v_m_two_trail, v_m_one, v_m_plain, v_m_empty,
      v_m_inner, v_m_err_s, v_m_err, v_stringer, v_struct, v_chan>>

\* the rows the cursor can yield (one value per column)
RowPool == <<
    <<v_int, v_str>>,
    <<v_nil, v_bytes>>,
    <<v_m_two_lead, v_f125>> >>

(***************************************************************************)
(* The state.                                                              *)
(***************************************************************************)
VARIABLES
    c,            \* the Converter: its exported fields and rowPreProcessor
    delimiterSet, \* history: the caller has assigned c.Delimiter
    pc,           \* where the call is
    entry,        \* the method the caller invoked: Write, WriteString, WriteFile
    csvWriter,    \* the csv.Writer of Write: Comma and the buffered records
    out,          \* the records that reached the destination (buffer, writer, file)
    file,         \* the file of WriteFile: "none", "open" or "closed"
    fetched,      \* rows the cursor has yielded (rows.Next() returned true)
    rowsErr,      \* what rows.Err() reports
    columnNames,  \* Write's local columnNames
    values,       \* Write's local values
    row,          \* Write's local row
    writeRow,     \* Write's local writeRow
    result,       \* the error Write returned
    ret,          \* what the invoked method returned: [err, str]
    log           \* history: the calls made on the cursor, the hook, the sink, the file

vars == <<c, delimiterSet, pc, entry, csvWriter, out, file, fetched, rowsErr,
          columnNames, values, row, writeRow, result, ret, log>>

(***************************************************************************)
(* Errors: the kind says where the error came from, wrap is the text       *)
(* fmt.Errorf("...%w") put around it ("" when returned as it came).        *)
(***************************************************************************)
Nil == [kind |-> "nil", wrap |-> ""]
Error(kind) == [kind |-> kind, wrap |-> ""]
Errorf(text, err) == [kind |-> err.kind, wrap |-> text]

\* a history entry
Ev(op, ok, r, res, err) ==
    [op |-> op, ok |-> ok, row |-> r, res |-> res, err |-> err]

\* the history entry of a call of the row pre-processor
EvPre(keep, r, names, res) ==
    [op |-> "Pre", ok |-> keep, row |-> r, res |-> res, err |-> Nil,
     names |-> names]

\* a record as csv.Writer writes it: the fields joined by the writer's Comma
Record(fields, comma) == [fields |-> fields, comma |-> comma]

(***************************************************************************)
(* Row pre-processors a caller may install (CsvPreProcessorFunc values).   *)
(*   skipAll   returns false for every row                                 *)
(*   first     skips a row whose first cell is empty, cuts the others down *)
(*             to their first cell                                         *)
(*   nonEmpty  skips a row whose first cell is empty, keeps the others     *)
(*   named     keeps every row and appends the column names to it          *)
(***************************************************************************)
PreProcessors == {"skipAll", "first", "nonEmpty", "named"}

\* c.rowPreProcessor(row, columnNames): [outputRow, processedRow]
CallPreProcessor(p, r, names) ==
    IF p = "skipAll" THEN [outputRow |-> FALSE, processedRow |-> <<>>]
    ELSE IF p = "first"
         THEN [outputRow |-> r[1] # <<>>, processedRow |-> SubSeq(r, 1, 1)]
    ELSE IF p = "nonEmpty" THEN [outputRow |-> r[1] # <<>>, processedRow |-> r]
    ELSE [outputRow |-> TRUE, processedRow |-> r \o names]

(***************************************************************************)
(* Pools for the caller's settings.                                        *)
(***************************************************************************)
HeaderPool == {<<>>, <<s_h>>}
\* NUL, '"', ',' and ';'
DelimiterPool == {NUL, Quote, Comma, 59}
FormatPool ==
    {[TimeFormat |-> <<>>, FloatFormat |-> <<>>, ByteArrayConverter |-> String],
     [TimeFormat |-> s_layout, FloatFormat |-> <<>>, ByteArrayConverter |-> Hex],
     [TimeFormat |-> <<>>, FloatFormat |-> s_floatfmt, ByteArrayConverter |-> StdBase64]}

(***************************************************************************)
(* New(rows): the Converter as constructed.                                *)
(***************************************************************************)
Init ==
    /\ c = [Headers |-> <<>>, WriteHeaders |-> TRUE, TimeFormat |-> <<>>,
            FloatFormat |-> <<>>, Delimiter |-> Comma,
            ByteArrayConverter |-> String, rowPreProcessor |-> "nil"]
    /\ delimiterSet = FALSE
    /\ pc = "config"
    /\ entry = "none"
    /\ csvWriter = [Comma |-> NUL, buf |-> <<>>]
    /\ out = <<>>
    /\ file = "none"
    /\ fetched = 0
    /\ rowsErr = Nil
    /\ columnNames = <<>>
    /\ values = <<>>
    /\ row = <<>>
    /\ writeRow = FALSE
    /\ result = Nil
    /\ ret = [err |-> Nil, str |-> <<>>]
    /\ log = <<>>

runVars == <<csvWriter, out, file, fetched, rowsErr, columnNames, values, row,
             writeRow, result, ret, log>>

(***************************************************************************)
(* The caller configures the Converter before the conversion.              *)
(***************************************************************************)
\* c.Headers = h
SetHeaders ==
    /\ pc = "config"
    /\ \E h \in HeaderPool : c' = [c EXCEPT !.Headers = h]
    /\ UNCHANGED <<delimiterSet, pc, entry, runVars>>

\* c.WriteHeaders = b
SetWriteHeaders ==
    /\ pc = "config"
    /\ \E b \in BOOLEAN : c' = [c EXCEPT !.WriteHeaders = b]
    /\ UNCHANGED <<delimiterSet, pc, entry, runVars>>

\* c.Delimiter = d
SetDelimiter ==
    /\ pc = "config"
    /\ \E d \in DelimiterPool : c' = [c EXCEPT !.Delimiter = d]
    /\ delimiterSet' = TRUE
    /\ UNCHANGED <<pc, entry, runVars>>

\* c.TimeFormat, c.FloatFormat, c.ByteArrayConverter = ...
SetFormat ==
    /\ pc = "config"
    /\ \E f \in FormatPool :
          c' = [c EXCEPT !.TimeFormat = f.TimeFormat,
                         !.FloatFormat = f.FloatFormat,
                         !.ByteArrayConverter = f.ByteArrayConverter]
    /\ UNCHANGED <<delimiterSet, pc, entry, runVars>>

\* func (c *Converter) SetRowPreProcessor(processor CsvPreProcessorFunc)
SetRowPreProcessor ==
    /\ pc = "config"
    /\ \E p \in PreProcessors \cup {"nil"} : c' = [c EXCEPT !.rowPreProcessor = p]
    /\ UNCHANGED <<delimiterSet, pc, entry, runVars>>

(***************************************************************************)
(* The caller invokes one of the three methods.                            *)
(***************************************************************************)
\* c.Write(writer) with a writer of the caller
CallWrite ==
    /\ pc = "config"
    /\ entry' = "Write"
    /\ pc' = "NewWriter"
    /\ UNCHANGED <<c, delimiterSet, runVars>>

\* c.WriteString(): buffer := bytes.Buffer{}; c.Write(&buffer)
CallWriteString ==
    /\ pc = "config"
    /\ entry' = "WriteString"
    /\ pc' = "NewWriter"
    /\ UNCHANGED <<c, delimiterSet, runVars>>

\* c.WriteFile(csvFileName)
CallWriteFile ==
    /\ pc = "config"
    /\ entry' = "WriteFile"
    /\ pc' = "Create"
    /\ UNCHANGED <<c, delimiterSet, runVars>>

\* WriteFile: f, err := os.Create(csvFileName); if err != nil { return err }
Create ==
    /\ pc = "Create"
    /\ \E ok \in BOOLEAN :
          /\ log' = Append(log, Ev("Create", ok, <<>>, <<>>,
                                    IF ok THEN Nil ELSE Error("create")))
          /\ IF ok
             THEN /\ file' = "open"
                  /\ pc' = "NewWriter"
                  /\ ret' = ret
             ELSE /\ file' = file
                  /\ pc' = "done"
                  /\ ret' = [err |-> Error("create"), str |-> <<>>]
    /\ UNCHANGED <<c, delimiterSet, entry, csvWriter, out, fetched, rowsErr,
                   columnNames, values, row, writeRow, result>>

(***************************************************************************)
(* encoding/csv as Write uses it.  csv.Writer buffers what it is given in  *)
(* a bufio.Writer; the destination sees it when the buffer fills or on     *)
(* Flush.  Whether a record fills the buffer depends on sizes the rows of  *)
(* the model stand for, so it is a choice.                                 *)
(***************************************************************************)
\* csv's validDelim for the runes of DelimiterPool
ValidDelim(r) == r # NUL /\ r # Quote /\ r # 13 /\ r # 10

\* the ways csvWriter.Write(record) can end
WriteOutcomes ==
    IF ~ValidDelim(csvWriter.Comma) THEN {"invalid"}
    ELSE {"ok"}
         \cup (IF csvWriter.buf # <<>> THEN {"spill"} ELSE {})
         \cup (IF entry # "WriteString" THEN {"fail"} ELSE {})

\* the error csvWriter.Write returns
WriteError(outcome) ==
    IF outcome = "invalid" THEN Error("delimiter")
    ELSE IF outcome = "fail" THEN Error("write")
    ELSE Nil

\* csvWriter.Write(fields): its effect on the writer and the destination
SinkWrite(fields, outcome) ==
    LET rec == Record(fields, csvWriter.Comma) IN
    IF outcome = "ok"
    THEN /\ csvWriter' = [csvWriter EXCEPT !.buf = Append(@, rec)]
         /\ out' = out
    ELSE IF outcome = "spill"
    THEN /\ csvWriter' = [csvWriter EXCEPT !.buf = <<rec>>]
         /\ out' = out \o csvWriter.buf
    ELSE UNCHANGED <<csvWriter, out>>

(***************************************************************************)
(* func (c Converter) Write(writer io.Writer) error, call by call.         *)
(***************************************************************************)
\* the separator of a bug that ignores the caller's Delimiter
SinkCommaDefault(conv) == Comma

\* lines 130-133: csv.NewWriter's Comma, replaced unless Delimiter is '\x00'
SinkComma(conv) == IF conv.Delimiter # NUL THEN conv.Delimiter ELSE Comma

\* rows := c.rows; csvWriter := csv.NewWriter(writer); csvWriter.Comma = ...
NewWriter ==
    /\ pc = "NewWriter"
    /\ csvWriter' = [Comma |-> SinkComma(c), buf |-> <<>>]
    /\ log' = Append(log, Ev("NewWriter", TRUE, <<>>, <<>>, Nil))
    /\ pc' = "Columns"
    /\ UNCHANGED <<c, delimiterSet, entry, out, file, fetched, rowsErr,
                   columnNames, values, row, writeRow, result, ret>>

\* a bug: the failure of rows.Columns() is not returned
RowsColumnsNoReturn ==
    /\ pc = "Columns"
    /\ \E ok \in BOOLEAN :
          /\ log' = Append(log, Ev("Columns", ok, <<>>, <<>>,
                                    IF ok THEN Nil ELSE Error("columns")))
          /\ columnNames' = IF ok THEN Columns ELSE <<>>
          /\ result' = IF ok THEN result ELSE Error("columns")
          /\ pc' = "Headers"
    /\ UNCHANGED <<c, delimiterSet, entry, csvWriter, out, file, fetched,
                   rowsErr, values, row, writeRow, ret>>

\* columnNames, err := rows.Columns(); if err != nil { return err }
RowsColumns ==
    /\ pc = "Columns"
    /\ \E ok \in BOOLEAN :
          /\ log' = Append(log, Ev("Columns", ok, <<>>, <<>>,
                                    IF ok THEN Nil ELSE Error("columns")))
          /\ columnNames' = IF ok THEN Columns ELSE <<>>
          /\ result' = IF ok THEN result ELSE Error("columns")
          /\ pc' = IF ok THEN "Headers" ELSE "Returned"
    /\ UNCHANGED <<c, delimiterSet, entry, csvWriter, out, file, fetched,
                   rowsErr, values, row, writeRow, ret>>

\* a bug: the override is ignored
HeaderRowColumns(conv, names) == names

\* lines 143-148: use Headers if set, otherwise default to query Columns
HeaderRow(conv, names) ==
    IF Len(conv.Headers) > 0 THEN conv.Headers ELSE names

\* if c.WriteHeaders { ...; err = csvWriter.Write(headers); if err != nil {...} }
WriteHeaderRow ==
    /\ pc = "Headers"
    /\ IF c.WriteHeaders
       THEN \E o \in WriteOutcomes :
               /\ SinkWrite(HeaderRow(c, columnNames), o)
               /\ log' = Append(log, Ev("WriteHeader", WriteError(o) = Nil,
                                         HeaderRow(c, columnNames), <<>>,
                                         WriteError(o)))
               /\ IF WriteError(o) = Nil
                  THEN pc' = "Next" /\ result' = result
                  ELSE /\ pc' = "Returned"
                       /\ result' = Errorf("failed to write headers: ", WriteError(o))
       ELSE /\ pc' = "Next"
            /\ UNCHANGED <<csvWriter, out, log, result>>
    /\ UNCHANGED <<c, delimiterSet, entry, file, fetched, rowsErr, columnNames,
                   values, row, writeRow, ret>>

\* for rows.Next(): another row, the end of the result set, or a failure
\* that ends the iteration and that rows.Err() will report
RowsNext ==
    /\ pc = "Next"
    /\ \/ /\ fetched < MaxRows
          /\ fetched' = fetched + 1
          /\ rowsErr' = rowsErr
          /\ pc' = "Scan"
          /\ log' = Append(log, Ev("Next", TRUE, <<>>, <<>>, Nil))
       \/ /\ \E e \in {Nil, Error("iteration")} : rowsErr' = e
          /\ fetched' = fetched
          /\ pc' = "Err"
          /\ log' = Append(log, Ev("Next", FALSE, <<>>, <<>>, Nil))
    /\ UNCHANGED <<c, delimiterSet, entry, csvWriter, out, file, columnNames,
                   values, row, writeRow, result, ret>>

\* a bug: a row that cannot be decoded is passed over
RowsScanContinue ==
    /\ pc = "Scan"
    /\ \/ \E i \in 1..Len(RowPool) :
             /\ values' = RowPool[i]
             /\ log' = Append(log, Ev("Scan", TRUE, RowPool[i], <<>>, Nil))
             /\ pc' = "Format"
             /\ result' = result
       \/ /\ log' = Append(log, Ev("Scan", FALSE, <<>>, <<>>, Error("scan")))
          /\ values' = values
          /\ result' = result
          /\ pc' = "Next"
    /\ UNCHANGED <<c, delimiterSet, entry, csvWriter, out, file, fetched,
                   rowsErr, columnNames, row, writeRow, ret>>

\* row := make([]string, count); if err = rows.Scan(valuePtrs...); err != nil
\* { return err }
RowsScan ==
    /\ pc = "Scan"
    /\ \/ \E i \in 1..Len(RowPool) :
             /\ values' = RowPool[i]
             /\ log' = Append(log, Ev("Scan", TRUE, RowPool[i], <<>>, Nil))
             /\ pc' = "Format"
             /\ result' = result
       \/ /\ log' = Append(log, Ev("Scan", FALSE, <<>>, <<>>, Error("scan")))
          /\ values' = values
          /\ result' = Error("scan")
          /\ pc' = "Returned"
    /\ UNCHANGED <<c, delimiterSet, entry, csvWriter, out, file, fetched,
                   rowsErr, columnNames, row, writeRow, ret>>

\* for i := range columnNames { row[i] = c.toString(values[i]) }
FormatRow ==
    /\ pc = "Format"
    /\ row' = [i \in 1..Len(columnNames) |-> toString(c, values[i])]
    /\ log' = Append(log, Ev("Format", TRUE, values, row', Nil))
    /\ pc' = "PreProcess"
    /\ UNCHANGED <<c, delimiterSet, entry, csvWriter, out, file, fetched,
                   rowsErr, columnNames, values, writeRow, result, ret>>

\* a bug: the hook decides whether the row is written, its row is dropped
PreProcessKeepsRow ==
    /\ pc = "PreProcess"
    /\ IF c.rowPreProcessor # "nil"
       THEN LET r == CallPreProcessor(c.rowPreProcessor, row, columnNames) IN
            /\ writeRow' = r.outputRow
            /\ row' = row
            /\ log' = Append(log, EvPre(r.outputRow, row, columnNames,
                                        r.processedRow))
       ELSE /\ writeRow' = TRUE
            /\ UNCHANGED <<row, log>>
    /\ pc' = "WriteRow"
    /\ UNCHANGED <<c, delimiterSet, entry, csvWriter, out, file, fetched,
                   rowsErr, columnNames, values, result, ret>>

\* writeRow := true
\* if c.rowPreProcessor != nil { writeRow, row = c.rowPreProcessor(row, columnNames) }
PreProcess ==
    /\ pc = "PreProcess"
    /\ IF c.rowPreProcessor # "nil"
       THEN LET r == CallPreProcessor(c.rowPreProcessor, row, columnNames) IN
            /\ writeRow' = r.outputRow
            /\ row' = r.processedRow
            /\ log' = Append(log, EvPre(r.outputRow, row, columnNames,
                                        r.processedRow))
       ELSE /\ writeRow' = TRUE
            /\ UNCHANGED <<row, log>>
    /\ pc' = "WriteRow"
    /\ UNCHANGED <<c, delimiterSet, entry, csvWriter, out, file, fetched,
                   rowsErr, columnNames, values, result, ret>>

\* if writeRow { err = csvWriter.Write(row); if err != nil { return ... } }
WriteDataRow ==
    /\ pc = "WriteRow"
    /\ IF writeRow
       THEN \E o \in WriteOutcomes :
               /\ SinkWrite(row, o)
               /\ log' = Append(log, Ev("WriteRow", WriteError(o) = Nil, row,
                                         <<>>, WriteError(o)))
               /\ IF WriteError(o) = Nil
                  THEN pc' = "Next" /\ result' = result
                  ELSE /\ pc' = "Returned"
                       /\ result' = Errorf("failed to write data row to csv ",
                                           WriteError(o))
       ELSE /\ pc' = "Next"
            /\ UNCHANGED <<csvWriter, out, log, result>>
    /\ UNCHANGED <<c, delimiterSet, entry, file, fetched, rowsErr, columnNames,
                   values, row, writeRow, ret>>

\* a bug: the cursor's terminal error is asked for and dropped
CheckRowsErrDropped ==
    /\ pc = "Err"
    /\ result' = Nil
    /\ log' = Append(log, Ev("Err", rowsErr = Nil, <<>>, <<>>, rowsErr))
    /\ pc' = "Flush"
    /\ UNCHANGED <<c, delimiterSet, entry, csvWriter, out, file, fetched,
                   rowsErr, columnNames, values, row, writeRow, ret>>

\* err = rows.Err()
CheckRowsErr ==
    /\ pc = "Err"
    /\ result' = rowsErr
    /\ log' = Append(log, Ev("Err", rowsErr = Nil, <<>>, <<>>, rowsErr))
    /\ pc' = "Flush"
    /\ UNCHANGED <<c, delimiterSet, entry, csvWriter, out, file, fetched,
                   rowsErr, columnNames, values, row, writeRow, ret>>

\* csvWriter.Flush(); return err.  Flush returns nothing: when the
\* destination rejects the bytes they stay behind and Write does not learn it.
Flush ==
    /\ pc = "Flush"
    /\ \E ok \in (IF entry # "WriteString" /\ csvWriter.buf # <<>>
                  THEN BOOLEAN ELSE {TRUE}) :
          /\ log' = Append(log, Ev("Flush", ok, <<>>, <<>>, Nil))
          /\ IF ok
             THEN /\ out' = out \o csvWriter.buf
                  /\ csvWriter' = [csvWriter EXCEPT !.buf = <<>>]
             ELSE UNCHANGED <<csvWriter, out>>
    /\ pc' = "Returned"
    /\ UNCHANGED <<c, delimiterSet, entry, file, fetched, rowsErr, columnNames,
                   values, row, writeRow, result, ret>>

(***************************************************************************)
(* Write has returned to the method that called it.                        *)
(***************************************************************************)
\* the caller of c.Write(writer) receives its error
WriteReturn ==
    /\ pc = "Returned"
    /\ entry = "Write"
    /\ ret' = [err |-> result, str |-> <<>>]
    /\ pc' = "done"
    /\ UNCHANGED <<c, delimiterSet, entry, csvWriter, out, file, fetched,
                   rowsErr, columnNames, values, row, writeRow, result, log>>

\* WriteString: return buffer.String(), err
WriteStringReturn ==
    /\ pc = "Returned"
    /\ entry = "WriteString"
    /\ ret' = [err |-> result, str |-> out]
    /\ pc' = "done"
    /\ UNCHANGED <<c, delimiterSet, entry, csvWriter, out, file, fetched,
                   rowsErr, columnNames, values, row, writeRow, result, log>>

\* a bug: the file is closed only when the conversion succeeded
WriteFileCloseOnSuccess ==
    /\ pc = "Returned"
    /\ entry = "WriteFile"
    /\ IF result # Nil
       THEN /\ ret' = [err |-> result, str |-> <<>>]
            /\ UNCHANGED <<file, log>>
       ELSE \E cerr \in {Nil, Error("close")} :
               /\ file' = "closed"
               /\ log' = Append(log, Ev("Close", cerr = Nil, <<>>, <<>>, cerr))
               /\ ret' = [err |-> cerr, str |-> <<>>]
    /\ pc' = "done"
    /\ UNCHANGED <<c, delimiterSet, entry, csvWriter, out, fetched, rowsErr,
                   columnNames, values, row, writeRow, result>>

\* WriteFile: err = c.Write(f); if err != nil { f.Close(); return err }
\* return f.Close()
WriteFileClose ==
    /\ pc = "Returned"
    /\ entry = "WriteFile"
    /\ \E cerr \in {Nil, Error("close")} :
          /\ file' = "closed"
          /\ log' = Append(log, Ev("Close", cerr = Nil, <<>>, <<>>, cerr))
          /\ ret' = [err |-> IF result # Nil THEN result ELSE cerr, str |-> <<>>]
    /\ pc' = "done"
    /\ UNCHANGED <<c, delimiterSet, entry, csvWriter, out, fetched, rowsErr,
                   columnNames, values, row, writeRow, result>>

Next ==
    \/ SetHeaders
    \/ SetWriteHeaders
    \/ SetDelimiter
    \/ SetFormat
    \/ SetRowPreProcessor
    \/ CallWrite
    \/ CallWriteString
    \/ CallWriteFile
    \/ Create
    \/ NewWriter
    \/ RowsColumns
    \/ WriteHeaderRow
    \/ RowsNext
    \/ RowsScan
    \/ FormatRow
    \/ PreProcess
    \/ WriteDataRow
    \/ CheckRowsErr
    \/ Flush
    \/ WriteReturn
    \/ WriteStringReturn
    \/ WriteFileClose

Spec == Init /\ [][Next]_vars

(***************************************************************************)
(* The formatter alone: toString applied to one value under one            *)
(* configuration.                                                          *)
(***************************************************************************)
FormatInit ==
    /\ \E f \in [TimeFormat : {<<>>, s_layout}, FloatFormat : {<<>>, s_floatfmt},
                 ByteArrayConverter : String..Hex] :
          c = [Headers |-> <<>>, WriteHeaders |-> TRUE,
               TimeFormat |-> f.TimeFormat, FloatFormat |-> f.FloatFormat,
               Delimiter |-> Comma, ByteArrayConverter |-> f.ByteArrayConverter,
               rowPreProcessor |-> "nil"]
    /\ \E i \in 1..Len(ValuePool) : values = <<ValuePool[i]>>
    /\ delimiterSet = FALSE
    /\ pc = "toString"
    /\ entry = "toString"
    /\ csvWriter = [Comma |-> NUL, buf |-> <<>>]
    /\ out = <<>>
    /\ file = "none"
    /\ fetched = 0
    /\ rowsErr = Nil
    /\ columnNames = <<>>
    /\ row = <<>>
    /\ writeRow = FALSE
    /\ result = Nil
    /\ ret = [err |-> Nil, str |-> <<>>]
    /\ log = <<>>

\* row[0] = c.toString(values[0])
ToStringCall ==
    /\ pc = "toString"
    /\ row' = <<toString(c, values[1])>>
    /\ pc' = "toStringDone"
    /\ UNCHANGED <<c, delimiterSet, entry, csvWriter, out, file, fetched,
                   rowsErr, columnNames, values, writeRow, result, ret, log>>

FormatNext == ToStringCall

SpecFormat == FormatInit /\ [][FormatNext]_vars

(***************************************************************************)
(* Reading the history.                                                    *)
(***************************************************************************)
\* the places of the calls of one kind
Idx(op) == {i \in 1..Len(log) : log[i].op = op}

\* the records the sink accepted, in order: those that reached the
\* destination, then those still buffered
Accepted == out \o csvWriter.buf

\* the rows handed to csvWriter.Write as data rows, in order
DataWrites ==
    LET IsData(e) == e.op = "WriteRow"
        w == SelectSeq(log, IsData)
    IN  [i \in 1..Len(w) |-> w[i].row]

\* the rows csvWriter.Write accepted (header or data), in order
OkWrites ==
    LET IsOk(e) == e.op \in {"WriteHeader", "WriteRow"} /\ e.ok
        w == SelectSeq(log, IsOk)
    IN  [i \in 1..Len(w) |-> w[i].row]

\* the replacement rows of the rows the hook kept, in order
Kept ==
    LET IsKept(e) == e.op = "Pre" /\ e.ok
        w == SelectSeq(log, IsKept)
    IN  [i \in 1..Len(w) |-> w[i].res]

\* the formatted rows, in order
Formatted ==
    LET IsFormat(e) == e.op = "Format"
        w == SelectSeq(log, IsFormat)
    IN  [i \in 1..Len(w) |-> w[i].res]

\* all but the last element
Front(q) == SubSeq(q, 1, Len(q) - 1)

\* Write has returned
Over == pc \in {"Returned", "done"}

\* rows.Columns() succeeded
ColumnsOk == \E i \in Idx("Columns") : log[i].ok

\* the calls whose failure ends Write at once
FailOps == {"Columns", "WriteHeader", "Scan", "WriteRow"}
Failures == {i \in 1..Len(log) : log[i].op \in FailOps /\ log[i].err # Nil}

(***************************************************************************)
(* C1.  When rows.Columns() succeeds: with WriteHeaders, exactly one       *)
(* header row is handed to the sink, before every other write and before   *)
(* any rows.Next(), and it is Headers when Headers is non-empty and the    *)
(* column names otherwise (and it is the first record the sink holds when  *)
(* the sink accepted it); without WriteHeaders no header row is handed to  *)
(* the sink and every record the sink holds is a data row.                 *)
(***************************************************************************)
C1_HeaderRow ==
    LET H == Idx("WriteHeader")
        expected == IF c.Headers # <<>> THEN c.Headers ELSE Columns
        pastHeaders == pc \notin {"config", "Create", "NewWriter", "Columns", "Headers"}
    IN  ColumnsOk =>
          /\ [i \in 1..Len(Accepted) |-> Accepted[i].fields] = OkWrites
          /\ IF c.WriteHeaders
             THEN /\ Cardinality(H) <= 1
                  /\ pastHeaders => Cardinality(H) = 1
                  /\ \A h \in H :
                        /\ \A j \in Idx("WriteRow") \cup Idx("Next") \cup Idx("Scan") : h < j
                        /\ log[h].row = expected
                        /\ log[h].ok => Accepted # <<>> /\ Accepted[1].fields = expected
             ELSE /\ H = {}
                  /\ OkWrites = DataWrites \/ OkWrites = Front(DataWrites)

\* a conversion with an override of another length than the columns wrote
\* its header and then a data row
C1_Witness ==
    /\ pc = "done"
    /\ c.WriteHeaders /\ c.Headers = <<s_h>>
    /\ Len(Accepted) >= 2
    /\ Accepted[1].fields = <<s_h>>
    /\ Idx("WriteRow") # {}

(***************************************************************************)
(* C2.  On every exit of Write after rows.Columns() succeeded (success,    *)
(* header write failure, decode failure, row write failure, terminal       *)
(* iteration error) csvWriter.Flush() has been called.                     *)
(***************************************************************************)
C2_FlushOnEveryExit ==
    (Over /\ ColumnsOk) => Idx("Flush") # {}

(***************************************************************************)
(* C3.  When rows.Scan fails on the k-th row, Write returns the decode     *)
(* error and the destination holds the header row (if enabled) and the     *)
(* rows written for rows 1..k-1, and nothing else.                         *)
(***************************************************************************)
C3_DecodeFailureOutput ==
    (Over /\ \E i \in Idx("Scan") : ~log[i].ok) =>
        /\ result = Error("scan")
        /\ [i \in 1..Len(out) |-> out[i].fields] = OkWrites

(***************************************************************************)
(* C4.  Write is fail-fast: after the first failing call (rows.Columns,    *)
(* the header write, rows.Scan, a row write) Write has returned; the       *)
(* cursor, the hook and the sink are not called again; the error returned  *)
(* is that failure's, wrapped for the two kinds of write and as it came    *)
(* for the others, and never nil.                                          *)
(***************************************************************************)
C4_FailFast ==
    \A i \in Failures :
        /\ Over
        /\ \A j \in (i + 1)..Len(log) : log[j].op = "Close"
        /\ result # Nil
        /\ result.kind = log[i].err.kind
        /\ result.wrap =
             (IF log[i].op = "WriteHeader" THEN "failed to write headers: "
              ELSE IF log[i].op = "WriteRow" THEN "failed to write data row to csv "
              ELSE "")
        /\ pc = "done" => ret.err = result
        /\ [k \in 1..Len(Accepted) |-> Accepted[k].fields] = OkWrites

\* a row was written, then a later row write failed, and the call is over
C4_Witness ==
    /\ pc = "done"
    /\ \E i, j \in Idx("WriteRow") : i < j /\ log[i].ok /\ ~log[j].ok
    /\ ret.err.kind = "write"

(***************************************************************************)
(* C5.  When rows.Next() reports no more rows, rows.Err() is called once,  *)
(* right after the loop, and Write returns what it reported.  Write        *)
(* returns nil exactly when rows.Columns, the header write, every          *)
(* rows.Scan, every row write and rows.Err reported no error; a terminal   *)
(* error is returned although every row fetched was written.               *)
(***************************************************************************)
C5_TerminalError ==
    LET E == Idx("Err") IN
    /\ Cardinality(E) <= 1
    /\ \A i \in Idx("Next") :
          ~log[i].ok => IF i = Len(log) THEN pc = "Err" ELSE log[i + 1].op = "Err"
    /\ \A e \in E :
          /\ e > 1 /\ log[e - 1].op = "Next" /\ ~log[e - 1].ok
          /\ log[e].err = rowsErr
          /\ Over => result = log[e].err
          /\ log[e].err # Nil => DataWrites = (IF c.rowPreProcessor = "nil"
                                               THEN Formatted ELSE Kept)
                                 /\ \A w \in Idx("WriteRow") : log[w].ok
    /\ (Over /\ Idx("NewWriter") # {}) =>
          (result = Nil <=>
              /\ E # {}
              /\ \A i \in 1..Len(log) :
                    log[i].op \in FailOps \cup {"Err"} => log[i].err = Nil)

\* two rows were fetched and written, then the cursor reported a terminal error
C5_Witness ==
    /\ pc = "done"
    /\ result = Error("iteration")
    /\ Len(DataWrites) = 2
    /\ \E e \in Idx("Err") : log[e].err = Error("iteration")

(***************************************************************************)
(* C6.  With a row pre-processor, it is called once for every row          *)
(* rows.Scan decoded, after the row was formatted and before any write of  *)
(* it, with the formatted row (toString of each value, in column order)    *)
(* and the column names; the data rows handed to the sink are, in order,   *)
(* the rows it returned for the rows it kept, whatever their length, and   *)
(* the sink holds them all but a last one it rejected; a row it skipped    *)
(* is not handed to the sink.  Without one, the formatted rows are handed  *)
(* to the sink as they are.                                                *)
(***************************************************************************)
C6_PreProcessor ==
    LET S == {i \in Idx("Scan") : log[i].ok}
        P == Idx("Pre")
        pending == IF \/ pc = "WriteRow" /\ writeRow
                      \/ pc = "PreProcess" /\ c.rowPreProcessor = "nil"
                   THEN 1 ELSE 0
        data == [k \in 1..(Len(OkWrites) - Cardinality({h \in Idx("WriteHeader") : log[h].ok}))
                    |-> OkWrites[k + Cardinality({h \in Idx("WriteHeader") : log[h].ok})]]
    IN
    /\ \A i \in S :
          /\ IF i = Len(log) THEN pc = "Format"
             ELSE log[i + 1].op = "Format" /\ log[i + 1].row = log[i].row
          /\ c.rowPreProcessor # "nil" =>
                IF i + 1 >= Len(log) THEN pc \in {"Format", "PreProcess"}
                ELSE log[i + 2].op = "Pre"
    /\ \A p \in P :
          /\ c.rowPreProcessor # "nil"
          /\ p > 2 /\ log[p - 1].op = "Format" /\ (p - 2) \in S
          /\ log[p].row = [j \in 1..Len(Columns) |-> toString(c, log[p - 2].row[j])]
          /\ log[p].names = Columns
          /\ IF p = Len(log) THEN TRUE
             ELSE IF log[p].ok
                  THEN log[p + 1].op = "WriteRow" /\ log[p + 1].row = log[p].res
                  ELSE log[p + 1].op # "WriteRow"
    /\ c.rowPreProcessor = "nil" => P = {}
    /\ LET handed == IF c.rowPreProcessor = "nil" THEN Formatted ELSE Kept IN
          /\ Len(handed) = Len(DataWrites) + pending
          /\ DataWrites = SubSeq(handed, 1, Len(DataWrites))
    /\ data = DataWrites \/ (data = Front(DataWrites) /\ Over /\ result # Nil)
    /\ c.rowPreProcessor = "skipAll" => DataWrites = <<>> /\ Len(Accepted) <= 1

\* the hook skipped one row and returned a shorter row for another, which
\* was written
C6_Witness ==
    /\ pc = "done"
    /\ result = Nil
    /\ \E p \in Idx("Pre") : ~log[p].ok
    /\ \E p \in Idx("Pre") : log[p].ok /\ Len(log[p].res) # Len(log[p].row)
    /\ Len(DataWrites) = 1

(***************************************************************************)
(* C7.  When rows.Columns() fails Write returns its error at once: no      *)
(* header or data row was handed to the sink, no row was fetched and the   *)
(* hook was not called.                                                    *)
(***************************************************************************)
C7_ColumnsFailure ==
    \A i \in Idx("Columns") :
        ~log[i].ok =>
            /\ Over
            /\ result = Error("columns")
            /\ pc = "done" => ret.err = Error("columns")
            /\ \A j \in 1..Len(log) :
                  log[j].op \notin {"WriteHeader", "WriteRow", "Next", "Scan",
                                    "Format", "Pre", "Err"}
            /\ Accepted = <<>>
            /\ fetched = 0

\* rows.Columns() failed in a conversion that would have written headers
\* and called a hook
C7_Witness ==
    /\ pc = "done"
    /\ \E i \in Idx("Columns") : ~log[i].ok
    /\ c.WriteHeaders
    /\ c.rowPreProcessor # "nil"

(***************************************************************************)
(* C8.  WriteFile closes the file once on every exit after os.Create       *)
(* succeeded; it returns the conversion's error when the conversion        *)
(* failed (whatever Close returned) and what Close returned when it        *)
(* succeeded; when os.Create fails it returns that error and no            *)
(* conversion is attempted.                                                *)
(***************************************************************************)
C8_WriteFile ==
    entry = "WriteFile" =>
        LET Cl == Idx("Close") IN
        /\ Cardinality(Cl) <= 1
        /\ \A k \in Cl : k = Len(log) /\ pc = "done" /\ log[1].op = "Create" /\ log[1].ok
        /\ file = "open" <=> (Idx("Create") # {} /\ log[1].ok /\ Cl = {})
        /\ pc = "done" =>
              IF log[1].ok
              THEN /\ Cardinality(Cl) = 1
                   /\ file = "closed"
                   /\ ret.err = (IF result # Nil THEN result ELSE log[Len(log)].err)
              ELSE /\ ret.err = Error("create")
                   /\ Len(log) = 1
                   /\ file = "none"

\* the conversion failed, Close failed too, and the conversion's error came back
C8_Witness ==
    /\ pc = "done"
    /\ entry = "WriteFile"
    /\ file = "closed"
    /\ result # Nil
    /\ log[Len(log)].op = "Close" /\ log[Len(log)].err = Error("close")
    /\ ret.err = result

(***************************************************************************)
(* C9.  For a value outside the type switch whose MarshalJSON succeeds,    *)
(* and for one that reaches json.Marshal, toString returns the text with   *)
(* one leading and one trailing '"' removed if present, and no more.       *)
(***************************************************************************)
StripOne(data) ==
    LET a == IF data # <<>> /\ Head(data) = Quote THEN Tail(data) ELSE data
    IN  IF a # <<>> /\ a[Len(a)] = Quote THEN Front(a) ELSE a

C9_StripOneQuote ==
    (pc = "toStringDone" /\ values[1].t = "other") =>
        LET v == values[1] IN
        /\ (v.isMarshaler /\ ~v.marshalErr) => row[1] = StripOne(v.marshalJSON)
        /\ (~(v.isMarshaler /\ ~v.marshalErr) /\ ~v.isStringer /\ ~v.jsonErr) =>
              row[1] = StripOne(v.json)

(***************************************************************************)
(* C10.  As claimed: the sink's separator is ',' when the caller has not   *)
(* assigned Delimiter and the assigned character otherwise, for every      *)
(* record of the conversion.                                               *)
(***************************************************************************)
C10_AnyDelimiter ==
    Idx("NewWriter") # {} =>
        LET sep == IF delimiterSet THEN c.Delimiter ELSE Comma IN
        /\ csvWriter.Comma = sep
        /\ \A k \in 1..Len(Accepted) : Accepted[k].comma = sep

(***************************************************************************)
(* C10, amended.  The sink's separator is ',' when the caller has not      *)
(* assigned Delimiter or has assigned the zero rune '\x00', and the        *)
(* assigned character otherwise; it is set before the first record is      *)
(* written and every record of the conversion is written with it.          *)
(***************************************************************************)
C10_DelimiterExceptNUL ==
    /\ Idx("NewWriter") = {} => Accepted = <<>>
    /\ Idx("NewWriter") # {} =>
        LET sep == IF delimiterSet /\ c.Delimiter # NUL THEN c.Delimiter ELSE Comma IN
        /\ csvWriter.Comma = sep
        /\ \A k \in 1..Len(Accepted) : Accepted[k].comma = sep

\* header and two rows reached the destination separated by the caller's ';'
C10_Witness ==
    /\ pc = "done"
    /\ delimiterSet /\ c.Delimiter = 59
    /\ Len(out) = 3
    /\ \A k \in 1..3 : out[k].comma = 59

=============================================================================
